---- MODULE Spec2Model ----
(***************************************************************************)
(* Model of discovery30303: the UDP port-30303 discovery scanner.          *)
(*                                                                         *)
(* Byte strings and text are sequences of one-character strings; the NUL   *)
(* byte is the token NUL.  Time is counted in clock ticks; a timeout is a  *)
(* whole number of ticks that BROADCAST_FREQUENCY divides, so that         *)
(* timeout / BROADCAST_FREQUENCY is exact.                                 *)
(***************************************************************************)
EXTENDS Integers, Sequences, FiniteSets, TLC

(***************************************************************************)
(* Bounds of the model.                                                    *)
(***************************************************************************)
\* the longest broadcast period (timeout / BROADCAST_FREQUENCY) of a session
MaxPeriod == 2
\* the latest a delayed timer is allowed to run past the longest deadline
MaxLate == 1
\* datagrams delivered to one session
MaxDatagrams == 2
\* transport errors reported to one session
MaxErrors == 1

(***************************************************************************)
(* Python values.                                                          *)
(***************************************************************************)
None == "None"
NUL == "NUL"
CR == "\r"
LF == "\n"

Min(a, b) == IF a <= b THEN a ELSE b

\* s[a:b] for 0 <= a <= b
Slice(s, a, b) == SubSeq(s, a + 1, Min(b, Len(s)))

\* s[a:]
SliceFrom(s, a) == SubSeq(s, a + 1, Len(s))

\* the characters str.strip() and str.rstrip() remove
IsSpace(c) == c \in {" ", "\t", "\n", "\r", "\f"}

RECURSIVE rstrip(_)
rstrip(s) ==
    IF s = << >> THEN << >>
    ELSE IF IsSpace(s[Len(s)]) THEN rstrip(SubSeq(s, 1, Len(s) - 1)) ELSE s

RECURSIVE lstrip(_)
lstrip(s) ==
    IF s = << >> THEN << >>
    ELSE IF IsSpace(s[1]) THEN lstrip(Tail(s)) ELSE s

strip(s) == lstrip(rstrip(s))

\* s.replace(a, b) for single characters a and b
replace(s, a, b) == [i \in DOMAIN s |-> IF s[i] = a THEN b ELSE s[i]]

\* s.split(sep) for a separator of one character: a sequence of strings
RECURSIVE split(_, _)
split(s, sep) ==
    IF \A i \in DOMAIN s : s[i] # sep THEN << s >>
    ELSE LET i == CHOOSE k \in DOMAIN s :
                      s[k] = sep /\ \A j \in 1..(k - 1) : s[j] # sep
         IN  << SubSeq(s, 1, i - 1) >> \o split(SubSeq(s, i + 1, Len(s)), sep)

\* s.split("\r\n")
RECURSIVE split_crlf(_)
split_crlf(s) ==
    LET At(k) == k < Len(s) /\ s[k] = CR /\ s[k + 1] = LF
    IN  IF \A k \in DOMAIN s : ~At(k) THEN << s >>
        ELSE LET i == CHOOSE k \in DOMAIN s :
                          At(k) /\ \A j \in 1..(k - 1) : ~At(j)
             IN  << SubSeq(s, 1, i - 1) >>
                     \o split_crlf(SubSeq(s, i + 2, Len(s)))

\* s.split(sep, maxsplit=1)[0] and s.split(sep)[0]: the text before the
\* first separator
split_first(s, sep) == split(s, sep)[1]

\* sep.join(parts) for a separator of one character
RECURSIVE join(_, _)
join(sep, parts) ==
    IF Len(parts) = 0 THEN << >>
    ELSE IF Len(parts) = 1 THEN parts[1]
    ELSE parts[1] \o << sep >> \o join(sep, Tail(parts))

\* variant: a zero is put in front of every group
zfill2_always(s) == << "0" >> \o s

\* s.zfill(2) for a string without a leading sign
zfill2(s) ==
    IF Len(s) >= 2 THEN s
    ELSE IF Len(s) = 1 THEN << "0" >> \o s ELSE << "0", "0" >>

IsDigit(c) == c \in {"0", "1", "2", "3", "4", "5", "6", "7", "8", "9"}

DigitVal(c) ==
    CASE c = "0" -> 0 [] c = "1" -> 1 [] c = "2" -> 2 [] c = "3" -> 3
      [] c = "4" -> 4 [] c = "5" -> 5 [] c = "6" -> 6 [] c = "7" -> 7
      [] c = "8" -> 8 [] c = "9" -> 9

\* int(s) succeeds: s is decimal digits, surrounding whitespace allowed
\* (signs and underscores do not occur in the payloads of this model)
int_ok(s) == strip(s) # << >> /\ \A i \in DOMAIN strip(s) : IsDigit(strip(s)[i])

RECURSIVE DecimalVal(_)
DecimalVal(s) ==
    IF s = << >> THEN 0
    ELSE 10 * DecimalVal(SubSeq(s, 1, Len(s) - 1)) + DigitVal(s[Len(s)])

\* int(s) where int_ok(s)
int(s) == DecimalVal(strip(s))

\* values of additional_data: a Python int and a Python str
PyInt(n) == << "int", n >>
PyStr(s) == << "str", s >>

(***************************************************************************)
(* Module constants.                                                       *)
(***************************************************************************)
MODEL_550_BYTES == << "S", "T", "M", " ", "5", "5", "0" >>
BROADCAST_FREQUENCY == 3
DISCOVER_MESSAGE == << "s", "t", "d", "i", "s", "c" >>

normalize_mac(mac) ==
    LET groups == split(replace(mac, "-", ":"), ":")
    IN  join(":", [i \in DOMAIN groups |-> zfill2(groups[i])])

(***************************************************************************)
(* Datagrams a device or the network can deliver to a session.             *)
(***************************************************************************)
LEGACY_450 ==
    << "M", "Y", "4", "5", "0", "-", "6", "3", "4", "0", " ", " ", " ",
       " ", " ", CR, LF, "0", "0", "-", "1", "E", "-", "C", "0", "-", "3",
       "8", "-", "6", "3", "-", "4", "0", CR, LF, "M", "a", "s", "t", "e",
       "r", " ", "B", "a", "t", "h", NUL, " ", " ", " ", NUL >>

STM_550 ==
    << "S", "T", "M", " ", "5", "5", "0", " ", "6", "8", "F", "1", "1",
       "4", "5", "6", "0", "0", "-", "D", "0", "-", "C", "A", "-", "0",
       "1", "-", "A", "9", "-", "4", "1", "M", "a", "s", "t", "e", "r",
       " ", "B", "a", "t", "h", NUL, NUL, NUL, NUL, NUL, NUL, NUL >>

\* a legacy payload of two CRLF-delimited segments
SHORT_450 ==
    << "M", "Y", "4", "5", "0", "-", "6", "3", "4", "0", " ", " ", " ",
       " ", " ", CR, LF, "0", "0", "-", "1", "E", "-", "C", "0", "-", "3",
       "8", "-", "6", "3", "-", "4", "0" >>

\* a 550 payload whose temperature field is not a number
BAD_550 ==
    << "S", "T", "M", " ", "5", "5", "0", " ", " ", "x", "F", "1", "1",
       "4", "5", "6", "0", "0", "-", "D", "0", "-", "C", "A", "-", "0",
       "1", "-", "A", "9", "-", "4", "1", "M", "a", "s", "t", "e", "r",
       " ", "B", "a", "t", "h", NUL, NUL, NUL, NUL, NUL, NUL, NUL >>

\* payloads that decode to a record, and payloads that do not
Replies == { LEGACY_450, STM_550 }
Ignored == { DISCOVER_MESSAGE, SHORT_450, BAD_550 }

TargetIp == "192.168.1.10"
OtherIp == "192.168.213.252"

\* sender addresses (ip, port): one host seen on two source ports, and
\* another host
Senders ==
    { << TargetIp, 48899 >>, << TargetIp, 30303 >>, << OtherIp, 48899 >> }

\* the datagrams (data, addr) a session can receive: the legacy reply from
\* every sender, and every other payload from the first port of the target
\* host
Datagrams ==
    ({ LEGACY_450 } \X Senders)
        \cup ((Replies \cup Ignored) \X { << TargetIp, 48899 >> })

\* the address argument of async_scan
Addresses == { None, TargetIp }

\* the timeout argument of async_scan, in ticks: negative, zero, positive
Timeouts == { BROADCAST_FREQUENCY * k : k \in (-1)..MaxPeriod }

MaxTime == BROADCAST_FREQUENCY * MaxPeriod + MaxLate

(***************************************************************************)
(* Device30303 and the dict response_list.  A dict is the sequence of its  *)
(* items in insertion order; a key carries its Python type, because keys   *)
(* of different types are never equal.                                     *)
(***************************************************************************)
Device30303(hostname, mac, ipaddress, name, model, additional_data) ==
    [hostname |-> hostname, mac |-> mac, ipaddress |-> ipaddress,
     name |-> name, model |-> model, additional_data |-> additional_data]

TupleKey(addr) == << "tuple", addr[1], addr[2] >>
StrKey(s) == << "str", s >>

\* key in d
dict_contains(d, key) == \E i \in DOMAIN d : d[i].key = key

\* variant: a new key is put in front of the others
dict_set_in_front(d, key, val) ==
    IF dict_contains(d, key)
    THEN [i \in DOMAIN d |-> IF d[i].key = key
                             THEN [key |-> key, val |-> val] ELSE d[i]]
    ELSE << [key |-> key, val |-> val] >> \o d

\* d[key] = val: a present key keeps its position
dict_set(d, key, val) ==
    IF dict_contains(d, key)
    THEN [i \in DOMAIN d |-> IF d[i].key = key
                             THEN [key |-> key, val |-> val] ELSE d[i]]
    ELSE Append(d, [key |-> key, val |-> val])

\* d[key] where key in d
dict_get(d, key) == d[CHOOSE i \in DOMAIN d : d[i].key = key].val

\* list(d.values())
dict_values(d) == [i \in DOMAIN d |-> d[i].val]

(***************************************************************************)
(* AIODiscovery30303._process_response                                     *)
(***************************************************************************)
\* the four int() conversions of the 550 branch all succeed
status_data_ok(data) ==
    /\ int_ok(Slice(data, 7, 10))
    /\ int_ok(Slice(data, 11, 12))
    /\ int_ok(Slice(data, 12, 14))
    /\ int_ok(Slice(data, 14, 16))

\* the dict status_data, its items in the order of the assignments
status_data(data) ==
    << [key |-> "temperature", val |-> PyInt(int(Slice(data, 7, 10)))],
       [key |-> "temp_unit",   val |-> PyStr(Slice(data, 10, 11))],
       [key |-> "profile",     val |-> PyInt(int(Slice(data, 11, 12)))],
       [key |-> "minutesleft", val |-> PyInt(int(Slice(data, 12, 14)))],
       [key |-> "secondsleft", val |-> PyInt(int(Slice(data, 14, 16)))] >>

\* the record built by the 550 branch
device_550(data, from_address) ==
    Device30303(<< "U", "n", "a", "v", "a", "i", "l", "a", "b", "l", "e" >>,
                normalize_mac(Slice(data, 16, 33)),
                from_address[1],
                split_first(SliceFrom(data, 33), NUL),
                strip(Slice(data, 0, 7)),
                status_data(data))

\* the record built by the legacy branch from the CRLF-delimited segments
device_legacy(data_split, from_address) ==
    Device30303(rstrip(data_split[1]),
                normalize_mac(rstrip(data_split[2])),
                from_address[1],
                rstrip(split_first(data_split[3], NUL)),
                split_first(rstrip(data_split[1]), "-"),
                << >>)

\* the guard of the legacy branch's bare return: the membership test looks
\* the ip string up among keys that are (ip, port) tuples
legacy_ignored(data_split, from_address, response_list) ==
    \/ Len(data_split) < 3
    \/ dict_contains(response_list, StrKey(from_address[1]))

\* variant: the whole address tuple is compared with the target ip
stop_result_whole_address(from_address, address) ==
    IF TupleKey(from_address) = StrKey(address) THEN "True" ELSE "False"

\* variant: every decoded datagram asks to stop
stop_result_always(from_address, address) == "True"

\* the value of the final return statement
stop_result(from_address, address) ==
    IF from_address[1] = address THEN "True" ELSE "False"

\* variant: the echo of the discovery message is answered like a reply
echo_result_as_reply(from_address, address) ==
    IF from_address[1] = address THEN "True" ELSE "False"

\* the value returned for no data and for the echo of the discovery message
echo_result(from_address, address) == "False"

\* exc: the exception raised (None if none); ret: the value returned;
\* response_list: the dict afterwards
_process_response(data, from_address, address, response_list) ==
    IF data = None \/ data = DISCOVER_MESSAGE
    THEN [exc |-> None, ret |-> echo_result(from_address, address),
          response_list |-> response_list]
    ELSE IF Slice(data, 0, 7) = MODEL_550_BYTES
    THEN IF ~status_data_ok(data)
         THEN [exc |-> "ValueError", ret |-> None,
               response_list |-> response_list]
         ELSE [exc |-> None, ret |-> stop_result(from_address, address),
               response_list |->
                   dict_set(response_list, TupleKey(from_address),
                            device_550(data, from_address))]
    ELSE LET data_split == split_crlf(data)
         IN  IF legacy_ignored(data_split, from_address, response_list)
             THEN [exc |-> None, ret |-> None,
                   response_list |-> response_list]
             ELSE [exc |-> None, ret |-> stop_result(from_address, address),
                   response_list |->
                       dict_set(response_list, TupleKey(from_address),
                                device_legacy(data_split, from_address))]

(***************************************************************************)
(* asyncio.Future, as used for found_all_future.                           *)
(***************************************************************************)
PendingFuture == [state |-> "PENDING", result |-> None]

\* variant: only a cancelled future counts as done
done_cancelled_only(fut) == fut.state = "CANCELLED"

done(fut) == fut.state # "PENDING"

\* fut.set_result(result): InvalidStateError unless the future is pending
set_result(fut, result) ==
    IF done(fut)
    THEN [exc |-> "InvalidStateError", fut |-> fut]
    ELSE [exc |-> None, fut |-> [state |-> "FINISHED", result |-> result]]

(***************************************************************************)
(* The state of one scanner object and of one call of async_scan.          *)
(***************************************************************************)
VARIABLES
    address,           \* argument of async_scan: the target ip, or None
    timeout,           \* argument of async_scan, in ticks
    now,               \* time.monotonic(), in ticks
    pc,                \* where the call stands
    sent,              \* number of transport.sendto calls
    quit_time,         \* _async_run_scan: the deadline
    remain_time,       \* _async_run_scan
    time_out,          \* _async_run_scan: the slice of the current wait
    wait_end,          \* when the timer of the current wait_for is due
    waits,             \* number of wait_for calls begun
    late,              \* ticks by which expired waits overran their slices
    found_all_future,  \* async_scan: the stop signal
    stopped_in,        \* the wait that the resolved signal cut short, or 0
    response_list,     \* async_scan: the dict of records
    received,          \* number of datagram_received calls
    last,              \* the last datagram_received call and what it did
    heard,             \* the sender ips of the datagrams received
    accepted,          \* the dict keys, by their first stored datagram
    io_errors,         \* number of error_received calls
    close_calls,       \* number of transport.close calls
    exc,               \* the exception propagating out of _async_run_scan
    outcome,           \* how async_scan ended: None, "returned", "raised"
    found_devices,     \* self.found_devices
    mac,               \* an argument of normalize_mac
    normalized,        \* what normalize_mac gave, applied again and again
    calls              \* the calls of async_scan that run side by side

vars == << address, timeout, now, pc, sent, quit_time, remain_time, time_out,
           wait_end, waits, late, found_all_future, stopped_in,
           response_list, received, last, heard, accepted, io_errors,
           close_calls, exc, outcome, found_devices, mac, normalized,
           calls >>

timing == << quit_time, remain_time, time_out, wait_end, waits, late >>
arrivals == << found_all_future, stopped_in, response_list, received, last,
               heard, accepted, io_errors >>
ending == << close_calls, exc, outcome, found_devices >>
\* what one call of async_scan on its own leaves alone
aside == << mac, normalized, calls >>

NoDatagram ==
    [data |-> << >>, addr |-> << None, 0 >>, ret |-> None, exc |-> None,
     wait |-> 0,
     early |-> FALSE]

\* AIODiscovery30303.__init__, and a call of async_scan about to start
InitCall ==
    /\ address \in Addresses
    /\ timeout \in Timeouts
    /\ now = 0
    /\ pc = "CALLED"
    /\ sent = 0
    /\ quit_time = 0
    /\ remain_time = 0
    /\ time_out = 0
    /\ wait_end = 0
    /\ waits = 0
    /\ late = 0
    /\ found_all_future = PendingFuture
    /\ stopped_in = 0
    /\ response_list = << >>
    /\ received = 0
    /\ last = NoDatagram
    /\ heard = {}
    /\ accepted = << >>
    /\ io_errors = 0
    /\ close_calls = 0
    /\ exc = None
    /\ outcome = None
    /\ found_devices = << >>

Init ==
    /\ InitCall
    /\ mac = << >>
    /\ normalized = << >>
    /\ calls = << >>

(***************************************************************************)
(* async_scan up to the running loop.                                      *)
(***************************************************************************)
\* the socket, the future, the dict and the datagram endpoint are created
async_scan ==
    /\ pc = "CALLED"
    /\ pc' = "IDLE"
    /\ found_all_future' = PendingFuture
    /\ response_list' = << >>
    /\ UNCHANGED << aside, address, timeout, now, sent, timing, stopped_in, received,
                    last, heard, accepted, io_errors, ending >>

(***************************************************************************)
(* _async_run_scan                                                         *)
(***************************************************************************)
\* timeout / self.BROADCAST_FREQUENCY
broadcast_period(t) == t \div BROADCAST_FREQUENCY

\* variant: the period is taken from what remains, not from the timeout
next_time_out_of_remaining(remain, t) == Min(remain, broadcast_period(remain))

\* variant: the wait is not cut into broadcast periods
next_time_out_remaining(remain, t) == remain

\* min(remain_time, timeout / self.BROADCAST_FREQUENCY)
next_time_out(remain, t) == Min(remain, broadcast_period(t))

\* variant: the comparison is inverted
past_quit_time_inverted(t, quit) == t <= quit

\* time.monotonic() >= quit_time
past_quit_time(t, quit) == t >= quit

\* the first sendto; quit_time and remain_time are set
send_initial ==
    /\ pc = "IDLE"
    /\ sent' = sent + 1
    /\ quit_time' = now + timeout
    /\ remain_time' = timeout
    /\ pc' = "SENT_INITIAL"
    /\ UNCHANGED << aside, address, timeout, now, time_out, wait_end, waits, late,
                    arrivals, ending >>

\* top of the loop: the slice is not positive, the loop returns
slice_exhausted ==
    /\ pc \in { "SENT_INITIAL", "RESENT" }
    /\ time_out' = next_time_out(remain_time, timeout)
    /\ time_out' <= 0
    /\ pc' = "DONE"
    /\ UNCHANGED << aside, address, timeout, now, sent, quit_time, remain_time,
                    wait_end, waits, late, arrivals, ending >>

\* top of the loop: wait_for(shield(found_all_future), timeout=time_out)
\* suspends the task
wait_for ==
    /\ pc \in { "SENT_INITIAL", "RESENT" }
    /\ time_out' = next_time_out(remain_time, timeout)
    /\ time_out' > 0
    /\ wait_end' = now + time_out'
    /\ waits' = waits + 1
    /\ pc' = "WAITING"
    /\ UNCHANGED << aside, address, timeout, now, sent, quit_time, remain_time,
                    late, arrivals, ending >>

\* the clock advances while the task is suspended and nothing is ready to
\* resume it; the timer of the wait may run late
tick ==
    /\ pc = "WAITING"
    /\ ~done(found_all_future)
    /\ now < MaxTime
    /\ now' = now + 1
    /\ UNCHANGED << aside, address, timeout, pc, sent, timing, arrivals, ending >>

\* the future is resolved: wait_for returns and so does the loop
wait_found ==
    /\ pc = "WAITING"
    /\ done(found_all_future)
    /\ pc' = "DONE"
    /\ UNCHANGED << aside, address, timeout, now, sent, timing, arrivals, ending >>

\* the timer of the wait runs with the future still pending: wait_for is
\* set to raise asyncio.TimeoutError, and the task is scheduled to resume.
\* Callbacks that are ready before the task run first, so a datagram can
\* still arrive between the expiry and the except clause.
timer_fired ==
    /\ pc = "WAITING"
    /\ ~done(found_all_future)
    /\ now >= wait_end
    /\ late' = late + (now - wait_end)
    /\ pc' = "EXPIRED"
    /\ UNCHANGED << aside, address, timeout, now, sent, quit_time, remain_time,
                    time_out, wait_end, waits, arrivals, ending >>

\* asyncio.TimeoutError at or after the deadline: the loop returns
wait_timeout_quit ==
    /\ pc = "EXPIRED"
    /\ past_quit_time(now, quit_time)
    /\ pc' = "DONE"
    /\ UNCHANGED << aside, address, timeout, now, sent, timing, arrivals, ending >>

\* asyncio.TimeoutError before the deadline: the datagram is sent again
wait_timeout_resend ==
    /\ pc = "EXPIRED"
    /\ ~past_quit_time(now, quit_time)
    /\ sent' = sent + 1
    /\ remain_time' = quit_time - now
    /\ pc' = "RESENT"
    /\ UNCHANGED << aside, address, timeout, now, quit_time, time_out, wait_end,
                    waits, late, arrivals, ending >>

(***************************************************************************)
(* Discovery30303: the callbacks of the transport, which run while the     *)
(* task is suspended.                                                      *)
(***************************************************************************)
\* variant: the signal is raised unless the result is False
_on_response_unless_false(data, addr, target, list, fut) ==
    LET r == _process_response(data, addr, target, list)
    IN  IF r.exc # None
        THEN [exc |-> r.exc, ret |-> r.ret, response_list |-> r.response_list,
              fut |-> fut]
        ELSE IF r.ret # "False"
        THEN [exc |-> set_result(fut, "True").exc, ret |-> r.ret,
              response_list |-> r.response_list,
              fut |-> set_result(fut, "True").fut]
        ELSE [exc |-> None, ret |-> r.ret, response_list |-> r.response_list,
              fut |-> fut]

\* async_scan._on_response: exc is the exception the callback raises
_on_response(data, addr, target, list, fut) ==
    LET r == _process_response(data, addr, target, list)
    IN  IF r.exc # None
        THEN [exc |-> r.exc, ret |-> r.ret, response_list |-> r.response_list,
              fut |-> fut]
        ELSE IF r.ret = "True"
        THEN [exc |-> set_result(fut, "True").exc, ret |-> r.ret,
              response_list |-> r.response_list,
              fut |-> set_result(fut, "True").fut]
        ELSE [exc |-> None, ret |-> r.ret, response_list |-> r.response_list,
              fut |-> fut]

datagram_received(data, addr) ==
    /\ pc \in { "WAITING", "EXPIRED" }
    /\ received < MaxDatagrams
    /\ LET r == _on_response(data, addr, address, response_list,
                             found_all_future)
       IN  /\ response_list' = r.response_list
           /\ found_all_future' = r.fut
           /\ stopped_in' = IF r.fut # found_all_future /\ pc = "WAITING"
                            THEN waits ELSE stopped_in
           /\ last' = [data |-> data, addr |-> addr, ret |-> r.ret,
                       exc |-> r.exc, wait |-> waits,
                       early |-> now < wait_end]
    /\ received' = received + 1
    /\ heard' = heard \cup { addr[1] }
    /\ accepted' =
           IF /\ data # DISCOVER_MESSAGE
              /\ _process_response(data, addr, address, response_list).ret
                     \in { "True", "False" }
              /\ \A i \in DOMAIN accepted : accepted[i] # TupleKey(addr)
           THEN Append(accepted, TupleKey(addr)) ELSE accepted
    /\ UNCHANGED << aside, address, timeout, now, pc, sent, timing, io_errors,
                    ending >>

\* the error is logged; nothing else changes
error_received ==
    /\ pc \in { "WAITING", "EXPIRED" }
    /\ io_errors < MaxErrors
    /\ io_errors' = io_errors + 1
    /\ UNCHANGED << aside, address, timeout, now, pc, sent, timing,
                    found_all_future, stopped_in, response_list, received,
                    last, heard, accepted, ending >>

(***************************************************************************)
(* The end of async_scan.                                                  *)
(***************************************************************************)
\* the caller cancels the task: CancelledError is raised at the await
cancelled ==
    /\ pc \in { "WAITING", "EXPIRED" }
    /\ exc' = "CancelledError"
    /\ pc' = "DONE"
    /\ UNCHANGED << aside, address, timeout, now, sent, timing, arrivals,
                    close_calls, outcome, found_devices >>

\* variant: close() follows the try statement instead of a finally clause
closes_transport_on_return(error) == error = None

\* transport.close() is called in this exit of the try statement
closes_transport(error) == TRUE

\* the finally clause
finally_close ==
    /\ pc = "DONE"
    /\ close_calls' = IF closes_transport(exc) THEN close_calls + 1
                      ELSE close_calls
    /\ pc' = "CLOSED"
    /\ UNCHANGED << aside, address, timeout, now, sent, timing, arrivals, exc,
                    outcome, found_devices >>

\* the exception propagates, or the records are stored and returned
async_scan_return ==
    /\ pc = "CLOSED"
    /\ IF exc # None
       THEN /\ outcome' = "raised"
            /\ UNCHANGED found_devices
       ELSE /\ outcome' = "returned"
            /\ found_devices' = dict_values(response_list)
    /\ pc' = "RETURNED"
    /\ UNCHANGED << aside, address, timeout, now, sent, timing, arrivals,
                    close_calls, exc >>

Next ==
    \/ async_scan
    \/ send_initial
    \/ slice_exhausted
    \/ wait_for
    \/ tick
    \/ wait_found
    \/ timer_fired
    \/ wait_timeout_quit
    \/ wait_timeout_resend
    \/ \E d \in Datagrams : datagram_received(d[1], d[2])
    \/ error_received
    \/ finally_close
    \/ async_scan_return

Spec == Init /\ [][Next]_vars

\* the steps of the task of async_scan
TaskStep ==
    \/ async_scan
    \/ send_initial
    \/ slice_exhausted
    \/ wait_for
    \/ wait_found
    \/ wait_timeout_quit
    \/ wait_timeout_resend
    \/ finally_close
    \/ async_scan_return

\* the event loop runs a task that is ready, the clock advances and a timer
\* that is due runs; datagrams and transport errors may or may not come
SpecFair ==
    /\ Init
    /\ [][Next]_vars
    /\ WF_vars(TaskStep)
    /\ WF_vars(tick)
    /\ WF_vars(timer_fired)

(***************************************************************************)
(* normalize_mac on its own: a mac string is normalized, and the result is *)
(* normalized again.                                                       *)
(***************************************************************************)
\* the longest mac string
MaxMacLen == 3

\* hex characters and the two separators
MacChars == { "1", "A", "-", ":" }

MacStrings == UNION { [1..n -> MacChars] : n \in 0..MaxMacLen }

InitMac ==
    /\ InitCall
    /\ address = None
    /\ timeout = 0
    /\ mac \in MacStrings
    /\ normalized = << >>
    /\ calls = << >>

normalize ==
    /\ Len(normalized) < 2
    /\ normalized' =
           Append(normalized,
                  normalize_mac(IF normalized = << >> THEN mac
                                ELSE normalized[Len(normalized)]))
    /\ UNCHANGED << address, timeout, now, pc, sent, timing, arrivals, ending,
                    mac, calls >>

NextMac == normalize

SpecMac == InitMac /\ [][NextMac]_vars

(***************************************************************************)
(* Two calls of async_scan on one scanner object, interleaved at their     *)
(* awaits.  Each call has the locals of async_scan and _async_run_scan;    *)
(* self.found_devices and the clock are shared.                            *)
(***************************************************************************)
\* datagrams delivered to one of the two calls
MaxTwoDatagrams == 1

Calls == { 1, 2 }

\* the timeout of both calls: one tick for each broadcast period
TwoTimeout == BROADCAST_FREQUENCY

MaxTwoTime == TwoTimeout + MaxLate

TwoDatagrams ==
    { << STM_550, << TargetIp, 48899 >> >>,
      << LEGACY_450, << OtherIp, 48899 >> >> }

\* a call of async_scan(TwoTimeout, a) about to start
NewCall(a) ==
    [address |-> a, pc |-> "CALLED", sent |-> 0, quit_time |-> 0,
     remain_time |-> 0, time_out |-> 0, wait_end |-> 0,
     fut |-> PendingFuture, response_list |-> << >>, heard |-> << >>,
     overlap |-> FALSE, closed |-> 0, result |-> << >>]

\* variant: the dict is an attribute of the scanner, and the first call's
\* dict serves every call
collector_of_scanner(c) == 1

\* the dict a call works on: response_list is a local of the call
collector_of(c) == c

InitTwo ==
    /\ InitCall
    /\ address = None
    /\ timeout = 0
    /\ mac = << >>
    /\ normalized = << >>
    /\ calls \in { << NewCall(TargetIp), NewCall(a) >> : a \in Addresses }

\* what the steps of the two calls leave alone
one_call == << address, timeout, pc, sent, timing, arrivals, close_calls, exc,
              outcome, mac, normalized >>

call_start(c) ==
    /\ calls[c].pc = "CALLED"
    /\ calls' = [calls EXCEPT
                    ![c].pc = "IDLE",
                    ![c].fut = PendingFuture,
                    ![c].response_list = << >>,
                    ![c].overlap =
                        \E o \in Calls \ { c } :
                            calls[o].pc \notin { "CALLED", "RETURNED" }]
    /\ UNCHANGED << one_call, now, found_devices >>

call_send_initial(c) ==
    /\ calls[c].pc = "IDLE"
    /\ calls' = [calls EXCEPT
                    ![c].pc = "SENT_INITIAL",
                    ![c].sent = @ + 1,
                    ![c].quit_time = now + TwoTimeout,
                    ![c].remain_time = TwoTimeout]
    /\ UNCHANGED << one_call, now, found_devices >>

\* top of the loop: the loop returns, or wait_for suspends the task
call_wait_for(c) ==
    /\ calls[c].pc \in { "SENT_INITIAL", "RESENT" }
    /\ LET slice == next_time_out(calls[c].remain_time, TwoTimeout)
       IN  calls' = IF slice <= 0
                    THEN [calls EXCEPT ![c].pc = "DONE",
                                       ![c].time_out = slice]
                    ELSE [calls EXCEPT ![c].pc = "WAITING",
                                       ![c].time_out = slice,
                                       ![c].wait_end = now + slice]
    /\ UNCHANGED << one_call, now, found_devices >>

call_wait_found(c) ==
    /\ calls[c].pc = "WAITING"
    /\ done(calls[c].fut)
    /\ calls' = [calls EXCEPT ![c].pc = "DONE"]
    /\ UNCHANGED << one_call, now, found_devices >>

call_timer_fired(c) ==
    /\ calls[c].pc = "WAITING"
    /\ ~done(calls[c].fut)
    /\ now >= calls[c].wait_end
    /\ calls' = [calls EXCEPT ![c].pc = "EXPIRED"]
    /\ UNCHANGED << one_call, now, found_devices >>

call_timeout_quit(c) ==
    /\ calls[c].pc = "EXPIRED"
    /\ past_quit_time(now, calls[c].quit_time)
    /\ calls' = [calls EXCEPT ![c].pc = "DONE"]
    /\ UNCHANGED << one_call, now, found_devices >>

call_timeout_resend(c) ==
    /\ calls[c].pc = "EXPIRED"
    /\ ~past_quit_time(now, calls[c].quit_time)
    /\ calls' = [calls EXCEPT
                    ![c].pc = "RESENT",
                    ![c].sent = @ + 1,
                    ![c].remain_time = calls[c].quit_time - now]
    /\ UNCHANGED << one_call, now, found_devices >>

\* a datagram arrives on the transport of call c: the closure _on_response
\* of that call runs
call_datagram_received(c, d) ==
    /\ calls[c].pc \in { "WAITING", "EXPIRED" }
    /\ Len(calls[c].heard) < MaxTwoDatagrams
    /\ LET r == _on_response(d[1], d[2], calls[c].address,
                             calls[collector_of(c)].response_list,
                             calls[c].fut)
       IN  calls' = [calls EXCEPT
                        ![collector_of(c)].response_list = r.response_list,
                        ![c].fut = r.fut,
                        ![c].heard = Append(@, d)]
    /\ UNCHANGED << one_call, now, found_devices >>

\* the finally clause, the assignment to self.found_devices and the return
call_finish(c) ==
    /\ calls[c].pc = "DONE"
    /\ found_devices' = dict_values(calls[collector_of(c)].response_list)
    /\ calls' = [calls EXCEPT
                    ![c].pc = "RETURNED",
                    ![c].closed = @ + 1,
                    ![c].result = found_devices']
    /\ UNCHANGED << one_call, now >>

\* the clock advances while no call is ready to run
two_tick ==
    /\ now < MaxTwoTime
    /\ \E c \in Calls : calls[c].pc = "WAITING"
    /\ \A c \in Calls :
           \/ calls[c].pc \in { "CALLED", "RETURNED" }
           \/ calls[c].pc = "WAITING" /\ ~done(calls[c].fut)
    /\ now' = now + 1
    /\ UNCHANGED << one_call, calls, found_devices >>

NextTwo ==
    \/ \E c \in Calls : call_start(c)
    \/ \E c \in Calls : call_send_initial(c)
    \/ \E c \in Calls : call_wait_for(c)
    \/ \E c \in Calls : call_wait_found(c)
    \/ \E c \in Calls : call_timer_fired(c)
    \/ \E c \in Calls : call_timeout_quit(c)
    \/ \E c \in Calls : call_timeout_resend(c)
    \/ \E c \in Calls, d \in TwoDatagrams : call_datagram_received(c, d)
    \/ \E c \in Calls : call_finish(c)
    \/ two_tick

SpecTwo == InitTwo /\ [][NextTwo]_vars

\* the same, with a caller that may cancel the task
NextCancel == Next \/ cancelled

SpecCancel == Init /\ [][NextCancel]_vars

(***************************************************************************)
(* Properties.                                                             *)
(***************************************************************************)
\* the loop of _async_run_scan has been left
Ended == pc \in { "DONE", "CLOSED", "RETURNED" }

\* the decoder builds a record from the payload
decodable(data) ==
    /\ data # DISCOVER_MESSAGE
    /\ IF Slice(data, 0, 7) = MODEL_550_BYTES THEN status_data_ok(data)
       ELSE Len(split_crlf(data)) >= 3

\* this step is a call of datagram_received
Delivered == received' = received + 1

\* ceil(a / b) for b > 0
CeilDiv(a, b) == (a + b - 1) \div b

\* C1: once a sender address (ip, port) has a record, a later decodable
\* datagram from the same sender address leaves the dict unchanged and is
\* answered with a result that does not ask to stop.
C1_FirstWriteWins ==
    [][(/\ Delivered
        /\ dict_contains(response_list, TupleKey(last'.addr))
        /\ decodable(last'.data))
       => (response_list' = response_list /\ last'.ret # "True")]_vars

\* C2: the dict never holds two records with the same ipaddress, and
\* neither does the returned list.
C2_OneRecordPerIp ==
    /\ \A i, j \in DOMAIN response_list :
           response_list[i].val.ipaddress = response_list[j].val.ipaddress
               => i = j
    /\ \A i, j \in DOMAIN found_devices :
           found_devices[i].ipaddress = found_devices[j].ipaddress => i = j

\* C3: a decodable datagram from the target that is delivered after the
\* stop signal was resolved raises nothing in the handler and leaves the
\* signal as it was.
C3_RaiseAgainIsNoOp ==
    [][(/\ Delivered
        /\ done(found_all_future)
        /\ address # None
        /\ last'.addr[1] = address
        /\ decodable(last'.data))
       => (last'.exc = None /\ found_all_future' = found_all_future)]_vars

\* the only datagram received is a decodable reply from the target that
\* arrived in the first wait, before its slice had elapsed
OnlyEarlyTargetReply ==
    /\ address # None
    /\ received = 1
    /\ last.addr[1] = address
    /\ decodable(last.data)
    /\ last.wait = 1
    /\ last.early

\* C4: when the only datagram received is a decodable reply from the
\* target arriving before the first sub-interval elapses, the loop is left
\* strictly before the deadline and the call returns exactly that record.
C4_EarlyReplyEndsEarly ==
    OnlyEarlyTargetReply =>
        /\ Ended => now < quit_time
        /\ pc = "RETURNED" =>
               /\ outcome = "returned"
               /\ found_devices =
                      dict_values(_process_response(last.data, last.addr,
                                      address, << >>).response_list)
               /\ Len(found_devices) = 1

C4_Witness ==
    /\ OnlyEarlyTargetReply
    /\ pc = "RETURNED"
    /\ Len(found_devices) = 1
    /\ now < quit_time

\* C5: when the stop signal is raised during the first wait, the session
\* sends exactly one discovery datagram in total.
C5_OneSendOnEarlyReply == stopped_in = 1 => sent = 1

C5_Witness == pc = "RETURNED" /\ stopped_in = 1 /\ sent = 1

C7_SilentTargetRunsFullTimeout ==
    (address # None /\ address \notin heard) =>
        /\ Ended => (now >= quit_time /\ exc = None)
        /\ pc = "RETURNED" => outcome = "returned"
        /\ (pc = "RETURNED" /\ received = 0) => found_devices = << >>

C7_Witness ==
    /\ address # None
    /\ heard = { OtherIp }
    /\ pc = "RETURNED"
    /\ outcome = "returned"
    /\ now >= quit_time
    /\ timeout > 0

\* C8: a datagram is answered with a stop result only if a target is
\* configured and equals the sender's ip; a decodable datagram from another
\* ip is recorded and leaves the stop signal alone; without a target the
\* signal is never raised and the loop is left at or after the deadline.
C8_StopOnlyForTarget ==
    [][/\ (Delivered /\ last'.ret = "True")
            => (address # None /\ last'.addr[1] = address)
       /\ (Delivered /\ decodable(last'.data) /\ last'.addr[1] # address)
            => /\ dict_contains(response_list', TupleKey(last'.addr))
               /\ found_all_future' = found_all_future
       /\ (address = None)
            => /\ ~done(found_all_future')
               /\ Ended' => now' >= quit_time']_vars

\* a reply from another host was the last datagram of a session with a
\* target, and a session without a target has heard the target host
C8_Witness ==
    \/ /\ address = TargetIp
       /\ received = 2
       /\ last.addr[1] = OtherIp
       /\ decodable(last.data)
       /\ ~done(found_all_future)
       /\ pc = "RETURNED"
    \/ /\ address = None
       /\ TargetIp \in heard
       /\ pc = "RETURNED"

\* C9: transport.close() is called exactly once on every exit path,
\* and before the call returns or raises.
C9_ClosedExactlyOnce ==
    /\ close_calls <= 1
    /\ pc \in { "CLOSED", "RETURNED" } => close_calls = 1
    /\ outcome # None => (close_calls = 1 /\ pc = "RETURNED")
    /\ pc = "RETURNED" => outcome # None

\* the call was cancelled inside the loop and has raised
C9_Witness ==
    /\ pc = "RETURNED"
    /\ outcome = "raised"
    /\ close_calls = 1

\* C10: a session to which the transport reported an I/O error ends with
\* an error propagated to the caller.
C10_TransportErrorAborts ==
    (pc = "RETURNED" /\ io_errors > 0) => outcome = "raised"

\* the decoder cannot parse the payload
malformed(data) == data # DISCOVER_MESSAGE /\ ~decodable(data)

\* C11: a payload the decoder cannot parse leaves the dict and the stop
\* signal as they were, whoever sent it, and does not end the session: the
\* task stays where it is, nothing propagates to it, and the loop is left
\* only with the signal resolved or at or after the deadline.
C11_MalformedIgnored ==
    [][/\ (Delivered /\ malformed(last'.data))
            => /\ response_list' = response_list
               /\ found_all_future' = found_all_future
               /\ pc' = pc
               /\ exc' = exc
               /\ sent' = sent
       /\ Ended' => (done(found_all_future') \/ now' >= quit_time')]_vars

\* both kinds of malformed payload came from the target, and the session
\* sent all its datagrams and ended at the deadline
C11_Witness ==
    /\ address = TargetIp
    /\ received = 2
    /\ last.data = BAD_550
    /\ last.exc = "ValueError"
    /\ response_list = << >>
    /\ heard = { TargetIp }
    /\ pc = "RETURNED"
    /\ sent = BROADCAST_FREQUENCY

\* the text of a field of the payload, trimmed
field_text(data, a, b) == PyStr(strip(Slice(data, a, b)))

\* C12: the record of a well-formed 550 payload has hostname "Unavailable"
\* and additional_data whose five entries are the trimmed texts of bytes
\* [7:10), [10:11), [11:12), [12:14) and [14:16), not numbers.
C12_TelemetryIsText ==
    (/\ received > 0
     /\ Slice(last.data, 0, 7) = MODEL_550_BYTES
     /\ status_data_ok(last.data))
        => LET dev == dict_get(response_list, TupleKey(last.addr))
           IN  /\ dev.hostname
                    = << "U", "n", "a", "v", "a", "i", "l", "a", "b", "l", "e" >>
               /\ dev.additional_data =
                    << [key |-> "temperature",
                        val |-> field_text(last.data, 7, 10)],
                       [key |-> "temp_unit",
                        val |-> field_text(last.data, 10, 11)],
                       [key |-> "profile",
                        val |-> field_text(last.data, 11, 12)],
                       [key |-> "minutesleft",
                        val |-> field_text(last.data, 12, 14)],
                       [key |-> "secondsleft",
                        val |-> field_text(last.data, 14, 16)] >>

\* C13: once the stop signal has been raised, no discovery datagram is
\* sent any more, also when the raise coincides with the expiry of a slice.
C13_NoSendAfterSignal ==
    [][done(found_all_future) => sent' = sent]_vars

\* C14: the engine follows IDLE -> SENT_INITIAL -> (WAITING <-> RESENT) ->
\* DONE.  The initial send is the first and happens before any wait; a
\* re-send follows at once on a wait that expired with the signal pending
\* and with now < deadline; a wait that expires with now >= deadline leads
\* to DONE without a re-send; nothing is sent once DONE is reached.
C14_StateMachine ==
    [][/\ (pc' # pc) =>
             \/ pc = "CALLED" /\ pc' = "IDLE"
             \/ pc = "IDLE" /\ pc' = "SENT_INITIAL"
             \/ pc \in { "SENT_INITIAL", "RESENT" } /\ pc' \in { "WAITING", "DONE" }
             \/ pc = "WAITING" /\ pc' \in { "EXPIRED", "DONE" }
             \/ pc = "EXPIRED" /\ pc' \in { "RESENT", "DONE" }
             \/ pc = "DONE" /\ pc' = "CLOSED"
             \/ pc = "CLOSED" /\ pc' = "RETURNED"
       /\ (sent' # sent) =>
             \/ pc = "IDLE" /\ pc' = "SENT_INITIAL" /\ sent = 0 /\ sent' = 1
                   /\ waits = 0
             \/ pc = "EXPIRED" /\ pc' = "RESENT" /\ sent' = sent + 1
                   /\ sent >= 1 /\ now >= wait_end /\ now < quit_time
       /\ (pc = "WAITING" /\ pc' = "EXPIRED") => ~done(found_all_future)
       /\ (pc = "EXPIRED" /\ pc' # pc /\ now >= quit_time)
             => (pc' = "DONE" /\ sent' = sent)
       /\ Ended => (Ended' /\ sent' = sent)]_vars

\* a session that re-sent twice and ended at its deadline
C14_Witness ==
    /\ pc = "RETURNED"
    /\ sent = BROADCAST_FREQUENCY
    /\ waits = BROADCAST_FREQUENCY
    /\ now >= quit_time
    /\ timeout > 0

\* C16: a payload equal to the discovery message is ignored whoever sent
\* it: the dict is unchanged and the stop signal is not raised.
C16_EchoIgnored ==
    [][(Delivered /\ last'.data = DISCOVER_MESSAGE)
          => /\ response_list' = response_list
             /\ found_all_future' = found_all_future
             /\ last'.ret = "False"
             /\ last'.exc = None]_vars

\* the echo came from the target of the session, which ran to its deadline
C16_Witness ==
    /\ address = TargetIp
    /\ received = 1
    /\ last.data = DISCOVER_MESSAGE
    /\ last.addr[1] = TargetIp
    /\ ~done(found_all_future)
    /\ response_list = << >>
    /\ pc = "RETURNED"
    /\ now >= quit_time

\* C17: the returned list holds exactly the records the dict held when the
\* loop was left, one per key, in the order in which the keys first had a
\* datagram stored.
C17_ReturnsCollectorInOrder ==
    [][/\ Len(response_list') = Len(accepted')
       /\ \A i \in DOMAIN accepted' : response_list'[i].key = accepted'[i]
       /\ Ended => response_list' = response_list
       /\ outcome' = "returned" =>
              found_devices' = [i \in DOMAIN accepted' |->
                                   dict_get(response_list', accepted'[i])]]_vars

\* two records were returned, one session ended by the signal and another
\* by the deadline
C17_Witness ==
    /\ outcome = "returned"
    /\ Len(found_devices) = 2
    /\ found_devices[1].ipaddress = OtherIp
    /\ found_devices[2].ipaddress = TargetIp
    /\ accepted = << TupleKey(<< OtherIp, 48899 >>),
                     TupleKey(<< TargetIp, 48899 >>) >>

\* C20: the number of discovery datagrams sent never exceeds
\* BROADCAST_FREQUENCY, whatever arrives and however late the timers run.
C20_AtMostFrequencySends ==
    timeout > 0 => sent <= BROADCAST_FREQUENCY

\* all the datagrams were sent although a timer ran late and datagrams
\* arrived
C20_Witness ==
    /\ timeout > 0
    /\ sent = BROADCAST_FREQUENCY
    /\ late > 0
    /\ received > 0
    /\ pc = "RETURNED"

\* C15: every session ends, whatever the timeout and whatever arrives;
\* the slice of a wait is min(remain_time, timeout / BROADCAST_FREQUENCY),
\* so that no wait is due after the deadline, and a slice that is not
\* positive ends the loop without a wait.
C15_Terminates ==
    /\ <>Ended
    /\ [](pc = "WAITING" =>
             /\ time_out = Min(remain_time, timeout \div BROADCAST_FREQUENCY)
             /\ time_out > 0
             /\ wait_end <= quit_time)
    /\ [][(/\ pc \in { "SENT_INITIAL", "RESENT" }
           /\ pc' # pc
           /\ Min(remain_time, timeout \div BROADCAST_FREQUENCY) <= 0)
          => (pc' = "DONE" /\ waits' = waits)]_vars

\* a session ended at its deadline after datagrams that did not stop it
C15_Witness ==
    /\ pc = "RETURNED"
    /\ timeout > 0
    /\ received = MaxDatagrams
    /\ ~done(found_all_future)
    /\ waits = BROADCAST_FREQUENCY
    /\ now >= quit_time

\* C19: normalize_mac is idempotent on every string of hex characters,
\* hyphens and colons: normalizing the result again changes nothing.
C19_NormalizeIdempotent ==
    Len(normalized) = 2 => normalized[2] = normalized[1]

\* a mac with an empty group and a group of one character was normalized
\* twice
C19_Witness ==
    /\ mac = << "-", "1" >>
    /\ Len(normalized) = 2
    /\ normalized[1] = << "0", "0", ":", "0", "1" >>

\* the record the decoder builds from a datagram
record_of(d) ==
    dict_values(_process_response(d[1], d[2], None, << >>).response_list)[1]

\* C18: two calls that run side by side are independent: a datagram that
\* arrives on the transport of one call changes neither the dict nor the
\* stop signal of the other, and what a call returns are records of
\* datagrams that arrived on its own transport.
C18_CallsIndependent ==
    [][\A c \in Calls :
          /\ (calls'[c].heard # calls[c].heard) =>
                 \A o \in Calls \ { c } :
                     /\ calls'[o].response_list = calls[o].response_list
                     /\ calls'[o].fut = calls[o].fut
          /\ (calls'[c].pc = "RETURNED") =>
                 /\ \A i \in DOMAIN calls'[c].result :
                        \E j \in DOMAIN calls'[c].heard :
                            calls'[c].result[i]
                                = record_of(calls'[c].heard[j])
                 /\ Len(calls'[c].result) <= Len(calls'[c].heard)]_vars

\* the second call started while the first was running, each received a
\* datagram of its own, and each returned its own record
C18_Witness ==
    /\ calls[1].pc = "RETURNED"
    /\ calls[2].pc = "RETURNED"
    /\ calls[2].overlap
    /\ calls[1].heard = << << LEGACY_450, << OtherIp, 48899 >> >> >>
    /\ calls[2].heard = << << STM_550, << TargetIp, 48899 >> >> >>
    /\ calls[1].result = << record_of(calls[1].heard[1]) >>
    /\ calls[2].result = << record_of(calls[2].heard[1]) >>

====
